---------------------------- MODULE Spec2Model ----------------------------
(***************************************************************************)
(* Balanced bipartite round-robin colouring (tesolchina/math-tournament).  *)
(*                                                                         *)
(* The module models                                                       *)
(*   - solver_bt.py   : verify_latin_square, solve_backtrack (the          *)
(*                      recursive search, one action per call entry, per   *)
(*                      loop iteration and per return), verify_full, main; *)
(*   - solver_fast.py : verify_ls, compute_b_transversals, solve_sa,       *)
(*                      verify_and_format, main;                           *)
(*   - solver.py      : solve (the cyclic local search).                   *)
(*                                                                         *)
(* The source fixes n = 10, m = 5 as module globals.  Here the order n is  *)
(* a variable chosen in Init from Orders, and m is n \div 2, so that the   *)
(* search space can be explored exhaustively.                              *)
(*                                                                         *)
(* Matrices are functions over 0..n-1 (the source's 0-based lists).        *)
(***************************************************************************)
EXTENDS Integers, Sequences, FiniteSets, TLC

VARIABLES
    n,          \* order of the instance (global n of every source file)
    L,          \* the pairing matrix handed to the engine
    engine,     \* "bt" (solver_bt), "sa" (solver_fast), "cyc" (solver.py)
    pc,         \* control position
    \* ---- solve_backtrack ----
    r,          \* argument r of the backtrack call being entered
    stack,      \* the active backtrack frames that are inside their for loop
    col_count,  \* col_count list of solve_backtrack
    b_count,    \* b_count list of solve_backtrack
    nodes,      \* nodes[0]
    solution,   \* the solution list (one chosen set per decided row)
    retval,     \* the value the last finished backtrack call returned
    visits,     \* log of the (row, completion) pairs applied, in order
    run,        \* 1 or 2: which of two consecutive calls on the same L
    prev,       \* what the first call left: counters, nodes, outcome, F, visits
    verbose,    \* argument verbose of solve_backtrack
    printed,    \* the progress lines solve_backtrack has printed
    \* ---- results ----
    F,          \* the colouring matrix (built on success / worked on by SA)
    outcome,    \* "pending", "Solved" (an F is returned) or "None"
    \* ---- local search ----
    col_sum,    \* col_sum list
    bt_sum,     \* bt_sum (solver_fast) / ad_sum (solver.py)
    energy,     \* incrementally tracked energy
    attempt,    \* attempt (solver_fast) / seed (solver.py) loop index
    step,       \* step loop index
    lastmove,   \* what the last loop iteration did
    \* ---- main ----
    cands,      \* the candidate pairings main walks through
    ci,         \* index of the current candidate (1-based)
    log,        \* per candidate: "invalid", "nosol", "found"
    \* ---- verify_full / verify_and_format ----
    verifier,   \* which verifier ran last: "verify_full", "verify_and_format"
    verdict,    \* what it did: raised an exception, or returned errors
    flipped,    \* the cell (r, i) of F corrupted after acceptance, if any
    \* ---- make_random_ls ----
    col_avail,  \* col_avail: per position i the values still unused there
    pair_used,  \* pair_used[i][j]
    ls_r,       \* loop index r of make_random_ls
    \* ---- write_solution / the reader of verify_n34_plus ----
    file,       \* the lines of the schedule file, as text in the writer
    rounds,     \* the list rounds the reader has built
    wenc,       \* text encoding of the writing process (open() default)
    renc        \* text encoding of the reading process (open() default)

vars == <<n, L, engine, pc, r, stack, col_count, b_count, nodes, solution,
          retval, visits, run, prev, F, outcome, col_sum, bt_sum, energy,
          attempt, step, lastmove, cands, ci, log, verbose, printed,
          verifier, verdict, flipped, col_avail, pair_used, ls_r,
          file, rounds, wenc, renc>>

btVars == <<r, stack, col_count, b_count, nodes, solution, retval, visits>>
saVars == <<col_sum, bt_sum, energy, attempt, step, lastmove>>
mainVars == <<cands, ci, log>>
verVars == <<verifier, verdict, flipped>>
genVars == <<col_avail, pair_used, ls_r>>
ioVars == <<file, rounds, wenc, renc>>

-----------------------------------------------------------------------------
(* Bounds of the model *)

\* the orders n explored (the source runs n = 10 only)
Orders == {2, 4}

\* node-count cutoff the Timeout claim is stated against
NodeCutoff == 4

\* max_attempts and max_steps arguments of solve_sa (500 / 200000 by default)
max_attempts == 2
max_steps == 2

\* number of candidate pairings main is given
MaxCands == 2

\* a progress line is printed every ProgressEvery nodes (1000000 in the source)
ProgressEvery == 2

-----------------------------------------------------------------------------
(* Helpers *)

\* range(k)
Idx(k) == 0 .. (k - 1)

\* no matrix / no list yet
NoValue == <<>>

\* m = n/2 (m = 5 for n = 10)
m == n \div 2

RECURSIVE SumTo(_, _)
\* f[0] + ... + f[k-1]
SumTo(f, k) == IF k = 0 THEN 0 ELSE SumTo(f, k - 1) + f[k - 1]

\* sum(f[x] for x in range(k)), S = range(k)
SumOver(f, S) == SumTo(f, Cardinality(S))

\* min of a non-empty set of integers
Min(S) == CHOOSE x \in S : \A y \in S : x <= y
Max(S) == CHOOSE x \in S : \A y \in S : y <= x

\* sorted(row) == list(range(k)): row is a permutation of [0,k)
IsPerm(row, k) ==
    /\ DOMAIN row = Idx(k)
    /\ \A v \in Idx(k) : Cardinality({i \in Idx(k) : row[i] = v}) = 1

\* all permutations of [0,k) as functions
Perms(k) == {p \in [Idx(k) -> Idx(k)] : \A a, b \in Idx(k) : p[a] = p[b] => a = b}

RECURSIVE LatinRects(_, _)
\* all j-row Latin rectangles of order k, as 1-indexed sequences of rows
LatinRects(k, j) ==
    IF j = 0 THEN {<<>>}
    ELSE {Append(x[1], x[2]) :
            x \in {y \in LatinRects(k, j - 1) \X Perms(k) :
                     \A q \in 1 .. (j - 1) : \A i \in Idx(k) : y[1][q][i] # y[2][i]}}

\* every Latin square of order k, as a matrix over 0..k-1
LatinSquares(k) == {[rr \in Idx(k) |-> S[rr + 1]] : S \in LatinRects(k, k)}

-----------------------------------------------------------------------------
(* solver_bt.py : validation and derived tables *)

\* column i of a matrix: [L[r][i] for r in range(n)]
Column(LL, i) == [rr \in Idx(n) |-> LL[rr][i]]

\* a check that stops after the row loop
verify_latin_square_RowsOnly(LL) ==
    \A rr \in Idx(n) : IsPerm(LL[rr], n)

\* verify_latin_square(L)[0]: rows, columns, then the pair set
verify_latin_square(LL) ==
    /\ \A rr \in Idx(n) : IsPerm(LL[rr], n)
    /\ \A i \in Idx(n) : IsPerm(Column(LL, i), n)
    /\ \A r1, r2 \in Idx(n) : \A i \in Idx(n) :
           r1 # r2 => LL[r1][i] # LL[r2][i]

\* L_inv filled for i in range(n - 1) only: the last column is never recorded
L_inv_OffByOne(LL) ==
    [rr \in Idx(n) |->
        [j \in Idx(n) |->
            LET S == {i \in Idx(n - 1) : LL[rr][i] = j}
            IN IF S = {} THEN 0 ELSE Max(S)]]

\* L_inv: starts all 0, then L_inv[r][L[r][i]] = i for i ascending
\* (the last write wins; an opponent that does not occur keeps 0)
L_inv(LL) ==
    [rr \in Idx(n) |->
        [j \in Idx(n) |->
            LET S == {i \in Idx(n) : LL[rr][i] = j}
            IN IF S = {} THEN 0 ELSE Max(S)]]

\* b_trans built without the inverse: opponent j is taken to sit in column j
b_trans_NoInverse(LL) ==
    [j \in Idx(n) |-> [rr \in Idx(n) |-> <<rr, j>>]]

\* b_trans[j] = [(r, L_inv[r][j]) for r in range(n)]
b_trans(LL) ==
    LET inv == L_inv(LL)
    IN [j \in Idx(n) |-> [rr \in Idx(n) |-> <<rr, inv[rr][j]>>]]

\* solver_fast.compute_b_transversals: trans[j] = [L_inv[r][j] for r in range(n)]
compute_b_transversals(LL) ==
    LET inv == L_inv(LL)
    IN [j \in Idx(n) |-> [rr \in Idx(n) |-> inv[rr][j]]]

\* T[j] as a plain list of column indices (the second components of b_trans[j])
TransRow(LL, j) == [rr \in Idx(n) |-> b_trans(LL)[j][rr][2]]

-----------------------------------------------------------------------------
(* solver_bt.py : solve_backtrack *)

\* counters created once and shared by all calls: a call finds what the
\* previous one left
FreshCounters_Leftover ==
    IF col_count = NoValue THEN [i \in Idx(n) |-> 0] ELSE col_count

\* col_count = [0] * n, b_count = [0] * n
FreshCounters == [i \in Idx(n) |-> 0]

\* nodes kept across calls (a module-level counter) instead of a fresh [0]
FreshNodes_Stale == nodes

\* nodes = [0]
FreshNodes == 0

\* nodes[0] % 1000000 == 0 and verbose, after "nodes[0] += 1"
ProgressDue == (nodes + 1) % ProgressEvery = 0 /\ verbose

\* remain = n - r - 1
Remain(rr) == n - rr - 1

\* the early "return False" of the column loop
ColPrune(cc, rem) ==
    \E i \in Idx(n) : cc[i] < m /\ cc[i] + rem + 1 < m

\* columns the column loop adds to forbidden
ColForbidden(cc) == {i \in Idx(n) : cc[i] >= m}

\* columns the column loop adds to forced
ColForced(cc, rem) ==
    {i \in Idx(n) : cc[i] < m /\ ~(cc[i] + rem + 1 < m) /\ cc[i] + rem < m}

\* columns the B-transversal loop adds to forbidden
BForbidden(bc, T, rr) == {T[j][rr][2] : j \in {k \in Idx(n) : bc[k] >= m}}

\* a B-transversal loop that never forces a column
BForced_Never(bc, T, rr, rem) == {}

\* columns the B-transversal loop adds to forced
BForced(bc, T, rr, rem) ==
    {T[j][rr][2] : j \in {k \in Idx(n) : bc[k] < m /\ bc[k] + rem < m}}

Forced(cc, bc, T, rr) == ColForced(cc, Remain(rr)) \cup BForced(bc, T, rr, Remain(rr))
Forbidden(cc, bc, T, rr) == ColForbidden(cc) \cup BForbidden(bc, T, rr)

\* free columns computed without looking at forbidden
FreeCols_IgnoresForbidden(forced, forbidden) == Idx(n) \ forced

\* free = [i for i in range(n) if i not in forced and i not in forbidden]
FreeCols(forced, forbidden) == (Idx(n) \ forced) \ forbidden

\* a row test that also gives the row up whenever a progress line is due
RowInfeasible_OrReporting(cc, bc, T, rr) ==
    LET forced == Forced(cc, bc, T, rr)
        forbidden == Forbidden(cc, bc, T, rr)
        free == FreeCols(forced, forbidden)
        need == m - Cardinality(forced)
    IN \/ ProgressDue
       \/ ColPrune(cc, Remain(rr))
       \/ forced \cap forbidden # {}
       \/ Cardinality(forced) > m
       \/ n - Cardinality(forbidden) < m
       \/ need < 0
       \/ need > Cardinality(free)

\* every "return False" between the classification and the for loop
RowInfeasible(cc, bc, T, rr) ==
    LET forced == Forced(cc, bc, T, rr)
        forbidden == Forbidden(cc, bc, T, rr)
        free == FreeCols(forced, forbidden)
        need == m - Cardinality(forced)
    IN \/ ColPrune(cc, Remain(rr))
       \/ forced \cap forbidden # {}
       \/ Cardinality(forced) > m
       \/ n - Cardinality(forbidden) < m
       \/ need < 0
       \/ need > Cardinality(free)

\* order of itertools.combinations over an ascending list: A comes before B
LexLess(A, B) ==
    /\ A # B
    /\ Min((A \ B) \cup (B \ A)) \in A

\* an iterator that stops after its first combination
NextComb_FirstOnly(free, need, started, extra) ==
    LET all == {S \in SUBSET free : Cardinality(S) = need}
    IN IF started \/ all = {} THEN {}
       ELSE {CHOOSE S \in all : \A T \in all : T = S \/ LexLess(S, T)}

\* an iterator that yields its first combination again on every call
NextComb_Restarts(free, need, started, extra) ==
    LET all == {S \in SUBSET free : Cardinality(S) = need}
    IN IF all = {} THEN {}
       ELSE {CHOOSE S \in all : \A T \in all : T = S \/ LexLess(S, T)}

\* what the combinations(free, need) iterator yields next: the empty set when
\* it is exhausted, else the singleton of the next combination
NextComb(free, need, started, extra) ==
    LET all == {S \in SUBSET free : Cardinality(S) = need}
        later == IF started THEN {S \in all : LexLess(extra, S)} ELSE all
    IN IF later = {} THEN {}
       ELSE {CHOOSE S \in later : \A T \in later : T = S \/ LexLess(S, T)}

\* "Apply": col_count[i] += 1 for i in chosen
ApplyCol(cc, chosen) == [i \in Idx(n) |-> IF i \in chosen THEN cc[i] + 1 ELSE cc[i]]

\* an "Apply" that leaves b_count as it is
ApplyB_Nothing(bc, T, rr, chosen) == bc

\* "Apply": b_count[j] += 1 if b_trans[j][r][1] in chosen
ApplyB(bc, T, rr, chosen) ==
    [j \in Idx(n) |-> IF T[j][rr][2] \in chosen THEN bc[j] + 1 ELSE bc[j]]

\* "Undo": col_count[i] -= 1 for i in chosen
UndoCol(cc, chosen) == [i \in Idx(n) |-> IF i \in chosen THEN cc[i] - 1 ELSE cc[i]]

\* an "Undo" that leaves b_count as it is
UndoB_Forgets(bc, T, rr, chosen) == bc

\* "Undo": b_count[j] -= 1 if b_trans[j][r][1] in chosen
UndoB(bc, T, rr, chosen) ==
    [j \in Idx(n) |-> IF T[j][rr][2] \in chosen THEN bc[j] - 1 ELSE bc[j]]

\* the "Check feasibility" block: ok
Feasible(cc, bc, rem) ==
    /\ \A i \in Idx(n) : ~(cc[i] > m \/ cc[i] + rem < m)
    /\ \A j \in Idx(n) : ~(bc[j] > m \/ bc[j] + rem < m)

\* the r == n test comparing the counters with m + 1
AllAtTarget_WrongTarget(cc, bc) ==
    /\ \A i \in Idx(n) : cc[i] = m + 1
    /\ \A j \in Idx(n) : bc[j] = m + 1

\* the r == n test
AllAtTarget(cc, bc) ==
    /\ \A i \in Idx(n) : cc[i] = m
    /\ \A j \in Idx(n) : bc[j] = m

\* F filled from solution[:-1]: the last decided row stays all zero
BuildF_DropsLastRow(sol) ==
    [rr \in Idx(n) |->
        [i \in Idx(n) |-> IF rr < Len(sol) - 1 /\ i \in sol[rr + 1] THEN 1 ELSE 0]]

\* F = [[0]*n ...]; for r, chosen in enumerate(solution): F[r][i] = 1
BuildF(sol) ==
    [rr \in Idx(n) |->
        [i \in Idx(n) |-> IF rr < Len(sol) /\ i \in sol[rr + 1] THEN 1 ELSE 0]]

\* no verifier has run yet
NoVerdict == [raised |-> FALSE, errors |-> <<>>]

NoPrev == [nodes |-> 0, outcome |-> "pending", F |-> NoValue, visits |-> <<>>,
           col_count |-> NoValue, b_count |-> NoValue, verbose |-> FALSE]

\* solve_backtrack's prologue: fresh counters, nodes, solution; backtrack(0, [])
BtEntry ==
    /\ pc = "entry"
    /\ col_count' = FreshCounters
    /\ b_count' = FreshCounters
    /\ nodes' = FreshNodes
    /\ solution' = <<>>
    /\ stack' = <<>>
    /\ visits' = <<>>
    /\ r' = 0
    /\ retval' = FALSE
    /\ F' = NoValue
    /\ outcome' = "pending"
    /\ printed' = <<>>
    /\ pc' = "call"
    /\ UNCHANGED <<n, L, engine, run, prev, verbose>>
    /\ UNCHANGED saVars
    /\ UNCHANGED mainVars
    /\ UNCHANGED verVars
    /\ UNCHANGED genVars
    /\ UNCHANGED ioVars

\* entry of backtrack(r, solution) up to the for loop (the frame also keeps
\* the counters and the solution list as they were when the call was entered)
BtCall ==
    /\ pc = "call"
    /\ nodes' = nodes + 1
    /\ printed' = IF ProgressDue THEN Append(printed, <<"Nodes", nodes + 1, r>>)
                  ELSE printed
    /\ LET T == b_trans(L)
       IN IF r = n
          THEN /\ retval' = AllAtTarget(col_count, b_count)
               /\ pc' = "ret"
               /\ stack' = stack
          ELSE IF RowInfeasible(col_count, b_count, T, r)
          THEN /\ retval' = FALSE
               /\ pc' = "ret"
               /\ stack' = stack
          ELSE LET forced == Forced(col_count, b_count, T, r)
                   forbidden == Forbidden(col_count, b_count, T, r)
               IN /\ stack' = Append(stack,
                                [r |-> r, forced |-> forced,
                                 forbidden |-> forbidden,
                                 free |-> FreeCols(forced, forbidden),
                                 need |-> m - Cardinality(forced),
                                 started |-> FALSE, extra |-> {},
                                 chosen |-> {},
                                 cc0 |-> col_count, bc0 |-> b_count,
                                 sol0 |-> solution])
                  /\ pc' = "loop"
                  /\ retval' = retval
    /\ UNCHANGED <<n, L, engine, r, col_count, b_count, solution, visits,
                   run, prev, F, outcome, verbose>>
    /\ UNCHANGED saVars
    /\ UNCHANGED mainVars
    /\ UNCHANGED verVars
    /\ UNCHANGED genVars
    /\ UNCHANGED ioVars

\* one iteration of "for extra in combinations(free, need)" up to the
\* recursive call, or the "return False" after the loop
BtLoop ==
    /\ pc = "loop"
    /\ LET fr == stack[Len(stack)]
           T == b_trans(L)
           nxt == NextComb(fr.free, fr.need, fr.started, fr.extra)
       IN IF nxt = {}
          THEN /\ stack' = SubSeq(stack, 1, Len(stack) - 1)
               /\ retval' = FALSE
               /\ pc' = "ret"
               /\ UNCHANGED <<r, col_count, b_count, solution, visits>>
          ELSE \E extra \in nxt :
               LET chosen == fr.forced \cup extra
                   cc == ApplyCol(col_count, chosen)
                   bc == ApplyB(b_count, T, fr.r, chosen)
                   fr2 == [fr EXCEPT !.started = TRUE, !.extra = extra,
                                     !.chosen = chosen]
               IN /\ stack' = [stack EXCEPT ![Len(stack)] = fr2]
                  /\ visits' = Append(visits, <<fr.r, chosen>>)
                  /\ retval' = retval
                  /\ IF Feasible(cc, bc, Remain(fr.r))
                     THEN /\ col_count' = cc
                          /\ b_count' = bc
                          /\ solution' = Append(solution, chosen)
                          /\ r' = fr.r + 1
                          /\ pc' = "call"
                     ELSE /\ col_count' = UndoCol(cc, chosen)
                          /\ b_count' = UndoB(bc, T, fr.r, chosen)
                          /\ solution' = solution
                          /\ r' = r
                          /\ pc' = "loop"
    /\ UNCHANGED <<n, L, engine, nodes, run, prev, F, outcome, verbose, printed>>
    /\ UNCHANGED saVars
    /\ UNCHANGED mainVars
    /\ UNCHANGED verVars
    /\ UNCHANGED genVars
    /\ UNCHANGED ioVars

\* a backtrack call has returned retval: to the loop of its caller
\* (solution.pop(), Undo, or "return True"), or to solve_backtrack itself
BtRet ==
    /\ pc = "ret"
    /\ IF stack = <<>>
       THEN /\ outcome' = IF retval THEN "Solved" ELSE "None"
            /\ F' = IF retval THEN BuildF(solution) ELSE NoValue
            /\ printed' = IF verbose THEN Append(printed, <<"Total", nodes>>)
                          ELSE printed
            /\ pc' = "returned"
            /\ UNCHANGED <<stack, col_count, b_count, solution>>
       ELSE LET fr == stack[Len(stack)]
                T == b_trans(L)
            IN IF retval
               THEN /\ stack' = SubSeq(stack, 1, Len(stack) - 1)
                    /\ pc' = "ret"
                    /\ UNCHANGED <<col_count, b_count, solution, F, outcome,
                                   printed>>
               ELSE /\ solution' = SubSeq(solution, 1, Len(solution) - 1)
                    /\ col_count' = UndoCol(col_count, fr.chosen)
                    /\ b_count' = UndoB(b_count, T, fr.r, fr.chosen)
                    /\ pc' = "loop"
                    /\ UNCHANGED <<stack, F, outcome, printed>>
    /\ UNCHANGED <<n, L, engine, r, nodes, retval, visits, run, prev, verbose>>
    /\ UNCHANGED saVars
    /\ UNCHANGED mainVars
    /\ UNCHANGED verVars
    /\ UNCHANGED genVars
    /\ UNCHANGED ioVars

\* solve_backtrack is called a second time on the same L, with either value
\* of verbose (a repeated run)
BtRepeat ==
    /\ pc = "returned"
    /\ engine = "bt"
    /\ cands = <<>>
    /\ run = 1
    /\ prev' = [nodes |-> nodes, outcome |-> outcome, F |-> F, visits |-> visits,
                col_count |-> col_count, b_count |-> b_count, verbose |-> verbose]
    /\ run' = 2
    /\ verbose' \in BOOLEAN
    /\ pc' = "entry"
    /\ UNCHANGED <<n, L, engine, F, outcome, printed>>
    /\ UNCHANGED btVars
    /\ UNCHANGED saVars
    /\ UNCHANGED mainVars
    /\ UNCHANGED verVars
    /\ UNCHANGED genVars
    /\ UNCHANGED ioVars

InitBT ==
    /\ n \in Orders
    /\ L \in LatinSquares(n)
    /\ engine = "bt"
    /\ pc = "entry"
    /\ r = 0
    /\ stack = <<>>
    /\ col_count = NoValue
    /\ b_count = NoValue
    /\ nodes = 0
    /\ solution = <<>>
    /\ retval = FALSE
    /\ visits = <<>>
    /\ run = 1
    /\ prev = NoPrev
    /\ F = NoValue
    /\ outcome = "pending"
    /\ col_sum = NoValue
    /\ bt_sum = NoValue
    /\ energy = 0
    /\ attempt = 0
    /\ step = 0
    /\ lastmove = "none"
    /\ cands = <<>>
    /\ ci = 0
    /\ log = <<>>
    /\ verbose \in BOOLEAN
    /\ printed = <<>>
    /\ verifier = "none"
    /\ verdict = NoVerdict
    /\ flipped = NoValue
    /\ col_avail = NoValue
    /\ pair_used = NoValue
    /\ ls_r = 0
    /\ file = NoValue
    /\ rounds = <<>>
    /\ wenc = "none"
    /\ renc = "none"

NextBT == BtEntry \/ BtCall \/ BtLoop \/ BtRet \/ BtRepeat

\* solve_backtrack(L) on every Latin square of the explored orders, run twice
SpecBT == InitBT /\ [][NextBT]_vars

\* the interpreter keeps executing solve_backtrack: a step that is possible is
\* eventually taken
SpecBTFair == InitBT /\ [][NextBT]_vars /\ WF_vars(NextBT)

-----------------------------------------------------------------------------
(* solver_fast.py / solver_bt.py : the candidate pairings, with 10 read as n *)
(* and 5 as m                                                              *)

\* make_shift_swap_ls (= custom_latin_square_3 of solver_bt.py)
make_shift_swap_ls ==
    [rr \in Idx(n) |->
        [i \in Idx(n) |->
            LET val == (i + 2 * (rr \div 2)) % n
            IN IF rr % 2 = 1
               THEN (IF val % 2 = 0 THEN (val + 1) % n ELSE (val - 1) % n)
               ELSE val]]

\* make_d5_ls (= d5_cayley_table of solver_bt.py): dihedral Cayley table
make_d5_ls ==
    [a \in Idx(n) |->
        [b \in Idx(n) |->
            LET ar == a % m
                af == a >= m
                br == b % m
                bf == b >= m
                cr == IF ~af THEN (ar + br) % m ELSE (ar - br) % m
                cf == IF ~af THEN bf ELSE ~bf
            IN cr + (IF cf THEN m ELSE 0)]]

\* make_mixed_ls (= mixed_latin_square of solver_bt.py)
make_mixed_ls ==
    [rr \in Idx(n) |->
        [i \in Idx(n) |->
            IF rr < m THEN (i + 2 * rr) % n ELSE (2 * (rr - m) + 1 - i) % n]]

\* custom_latin_square_1: alternating shift / reflection
custom_latin_square_1 ==
    [rr \in Idx(n) |->
        [i \in Idx(n) |-> IF rr % 2 = 0 THEN (i + rr) % n ELSE (rr - i) % n]]

\* the pairing solver.py works with: j = (i + shifts[r]) % n, shifts[r] = r
CyclicPairing == [rr \in Idx(n) |-> [i \in Idx(n) |-> (i + rr) % n]]

\* named_ls of solver_fast.main
named_ls == {make_shift_swap_ls, make_d5_ls, make_mixed_ls}

\* latin_squares of solver_bt.main
latin_squares == {make_d5_ls, make_mixed_ls, custom_latin_square_1, make_shift_swap_ls}

\* solver_fast.verify_ls
verify_ls(LL) ==
    /\ \A rr \in Idx(n) : IsPerm(LL[rr], n)
    /\ \A i \in Idx(n) : IsPerm(Column(LL, i), n)

-----------------------------------------------------------------------------
(* solver_fast.py : solve_sa, and solver.py : solve *)

\* all 0/1 rows of length n with m ones: what rng.shuffle([1]*m + [0]*(n-m))
\* can leave
ShuffledRows == {row \in [Idx(n) -> {0, 1}] : SumOver(row, Idx(n)) = m}

\* col_sum = [sum(F[r][i] for r in range(n)) for i in range(n)]
col_sum_of(FF) ==
    [i \in Idx(n) |-> SumOver([rr \in Idx(n) |-> FF[rr][i]], Idx(n))]

\* bt_sum = [sum(F[r][trans[j][r]] for r in range(n)) for j in range(n)]
bt_sum_of(FF, trans) ==
    [j \in Idx(n) |-> SumOver([rr \in Idx(n) |-> FF[rr][trans[j][rr]]], Idx(n))]

\* ad_sum[(r+i) % n] += 1 for every cell with F[r][i] set
ad_sum_of(FF) ==
    [k \in Idx(n) |->
        Cardinality({c \in Idx(n) \X Idx(n) :
                        FF[c[1]][c[2]] # 0 /\ (c[1] + c[2]) % n = k})]

Sq(x) == x * x

\* an energy that leaves the opponent sums out
energy_of_ColsOnly(cs, bs) ==
    SumOver([i \in Idx(n) |-> Sq(cs[i] - m)], Idx(n))

\* energy = sum((c - m)**2 for c in col_sum) + sum((b - m)**2 for b in bt_sum)
energy_of(cs, bs) ==
    SumOver([i \in Idx(n) |-> Sq(cs[i] - m)], Idx(n))
    + SumOver([j \in Idx(n) |-> Sq(bs[j] - m)], Idx(n))

\* d_col with the i0 terms left out
d_col_HalfOnly(cs, i1, i0) ==
    Sq(cs[i1] - 1 - m) - Sq(cs[i1] - m)

\* d_col
d_col(cs, i1, i0) ==
    Sq(cs[i1] - 1 - m) - Sq(cs[i1] - m) + Sq(cs[i0] + 1 - m) - Sq(cs[i0] - m)

\* d_bt of solve_sa: the if / elif over all j
d_bt(bs, trans, rr, i1, i0) ==
    SumOver([j \in Idx(n) |->
                IF trans[j][rr] = i1 THEN Sq(bs[j] - 1 - m) - Sq(bs[j] - m)
                ELSE IF trans[j][rr] = i0 THEN Sq(bs[j] + 1 - m) - Sq(bs[j] - m)
                ELSE 0], Idx(n))

\* d_ad of solver.solve
d_ad(as, rr, i1, i0) ==
    LET ad_k1 == (rr + i1) % n
        ad_k0 == (rr + i0) % n
    IN IF ad_k1 = ad_k0 THEN 0
       ELSE Sq(as[ad_k1] - 1 - m) - Sq(as[ad_k1] - m)
            + Sq(as[ad_k0] + 1 - m) - Sq(as[ad_k0] - m)

\* a move that sets F[r][i0] but forgets to clear F[r][i1]
Flip_KeepsOldOne(FF, rr, i1, i0) == [FF EXCEPT ![rr] = [@ EXCEPT ![i0] = 1]]

\* F[r][i1] = 0; F[r][i0] = 1
Flip(FF, rr, i1, i0) == [FF EXCEPT ![rr] = [[@ EXCEPT ![i1] = 0] EXCEPT ![i0] = 1]]

\* a col_sum update that only increments
MoveCol_NoDecrement(cs, i1, i0) == [cs EXCEPT ![i0] = @ + 1]

\* col_sum[i1] -= 1; col_sum[i0] += 1
MoveCol(cs, i1, i0) == [[cs EXCEPT ![i1] = @ - 1] EXCEPT ![i0] = @ + 1]

\* a bt_sum update that only increments
MoveBt_NoDecrement(bs, trans, rr, i1, i0) ==
    [j \in Idx(n) |-> IF trans[j][rr] = i0 THEN bs[j] + 1 ELSE bs[j]]

\* the bt_sum update loop of solve_sa
MoveBt(bs, trans, rr, i1, i0) ==
    [j \in Idx(n) |->
        IF trans[j][rr] = i1 THEN bs[j] - 1
        ELSE IF trans[j][rr] = i0 THEN bs[j] + 1
        ELSE bs[j]]

\* ad_sum[ad_k1] -= 1; ad_sum[ad_k0] += 1
MoveAd(as, rr, i1, i0) ==
    [[as EXCEPT ![(rr + i1) % n] = @ - 1] EXCEPT ![(rr + i0) % n] = @ + 1]

\* the acceptance test: an improving move is always taken; for delta >= 0 the
\* outcome depends on rng.random() (and the temperature), so both can happen
Accepts(delta) == IF delta < 0 THEN {TRUE} ELSE BOOLEAN

\* ones / zeros of row r
Ones(FF, rr) == {i \in Idx(n) : FF[rr][i] = 1}
Zeros(FF, rr) == {i \in Idx(n) : FF[rr][i] = 0}

\* SaAttempt giving up after a single attempt instead of max_attempts
SaAttempt_GivesUpAfterOne ==
    /\ pc = "sa_attempt"
    /\ IF attempt >= 1
       THEN /\ outcome' = "None"
            /\ pc' = "returned"
            /\ UNCHANGED <<F, col_sum, bt_sum, energy, step, lastmove>>
       ELSE \E FF \in [Idx(n) -> ShuffledRows] :
            LET trans == compute_b_transversals(L)
                cs == col_sum_of(FF)
                bs == bt_sum_of(FF, trans)
                en == energy_of(cs, bs)
            IN /\ F' = FF
               /\ col_sum' = cs
               /\ bt_sum' = bs
               /\ energy' = en
               /\ step' = 0
               /\ lastmove' = "init"
               /\ IF en = 0
                  THEN outcome' = "Solved" /\ pc' = "returned"
                  ELSE outcome' = "pending" /\ pc' = "sa_step"
    /\ UNCHANGED <<n, L, engine, attempt, run, prev, verbose, printed>>
    /\ UNCHANGED btVars
    /\ UNCHANGED mainVars
    /\ UNCHANGED verVars
    /\ UNCHANGED genVars
    /\ UNCHANGED ioVars

\* top of "for attempt in range(max_attempts)": a freshly shuffled F and
\* freshly computed sums, or "return None" after the last attempt
SaAttempt ==
    /\ pc = "sa_attempt"
    /\ IF attempt >= max_attempts
       THEN /\ outcome' = "None"
            /\ pc' = "returned"
            /\ UNCHANGED <<F, col_sum, bt_sum, energy, step, lastmove>>
       ELSE \E FF \in [Idx(n) -> ShuffledRows] :
            LET trans == compute_b_transversals(L)
                cs == col_sum_of(FF)
                bs == bt_sum_of(FF, trans)
                en == energy_of(cs, bs)
            IN /\ F' = FF
               /\ col_sum' = cs
               /\ bt_sum' = bs
               /\ energy' = en
               /\ step' = 0
               /\ lastmove' = "init"
               /\ IF en = 0
                  THEN outcome' = "Solved" /\ pc' = "returned"
                  ELSE outcome' = "pending" /\ pc' = "sa_step"
    /\ UNCHANGED <<n, L, engine, attempt, run, prev, verbose, printed>>
    /\ UNCHANGED btVars
    /\ UNCHANGED mainVars
    /\ UNCHANGED verVars
    /\ UNCHANGED genVars
    /\ UNCHANGED ioVars

\* one iteration of "for step in range(max_steps)", or the end of the attempt
\* (F, the sums and the energy of a finished attempt are dead: the next
\* attempt rebinds every one of them before reading it)
SaStep ==
    /\ pc = "sa_step"
    /\ IF step >= max_steps
       THEN /\ attempt' = attempt + 1
            /\ pc' = "sa_attempt"
            /\ lastmove' = "exhausted"
            /\ F' = NoValue
            /\ col_sum' = NoValue
            /\ bt_sum' = NoValue
            /\ energy' = 0
            /\ step' = 0
            /\ outcome' = outcome
       ELSE \E rr \in Idx(n) :
            \E i1 \in Ones(F, rr) : \E i0 \in Zeros(F, rr) :
            LET trans == compute_b_transversals(L)
                delta == d_col(col_sum, i1, i0) + d_bt(bt_sum, trans, rr, i1, i0)
            IN \E acc \in Accepts(delta) :
               /\ step' = step + 1
               /\ attempt' = attempt
               /\ IF acc
                  THEN /\ F' = Flip(F, rr, i1, i0)
                       /\ col_sum' = MoveCol(col_sum, i1, i0)
                       /\ bt_sum' = MoveBt(bt_sum, trans, rr, i1, i0)
                       /\ energy' = energy + delta
                       /\ lastmove' = "accepted"
                       /\ IF energy + delta = 0
                          THEN outcome' = "Solved" /\ pc' = "returned"
                          ELSE outcome' = outcome /\ pc' = "sa_step"
                  ELSE /\ lastmove' = "rejected"
                       /\ UNCHANGED <<F, col_sum, bt_sum, energy, outcome, pc>>
    /\ UNCHANGED <<n, L, engine, run, prev, verbose, printed>>
    /\ UNCHANGED btVars
    /\ UNCHANGED mainVars
    /\ UNCHANGED verVars
    /\ UNCHANGED genVars
    /\ UNCHANGED ioVars

\* solver.solve, top of "for seed in range(...)"
SolveSeed ==
    /\ pc = "cyc_seed"
    /\ IF attempt >= max_attempts
       THEN /\ outcome' = "None"
            /\ pc' = "returned"
            /\ UNCHANGED <<F, col_sum, bt_sum, energy, step, lastmove>>
       ELSE \E FF \in [Idx(n) -> ShuffledRows] :
            LET cs == col_sum_of(FF)
                as == ad_sum_of(FF)
                en == energy_of(cs, as)
            IN /\ F' = FF
               /\ col_sum' = cs
               /\ bt_sum' = as
               /\ energy' = en
               /\ step' = 0
               /\ lastmove' = "init"
               /\ IF en = 0
                  THEN outcome' = "Solved" /\ pc' = "returned"
                  ELSE outcome' = "pending" /\ pc' = "cyc_step"
    /\ UNCHANGED <<n, L, engine, attempt, run, prev, verbose, printed>>
    /\ UNCHANGED btVars
    /\ UNCHANGED mainVars
    /\ UNCHANGED verVars
    /\ UNCHANGED genVars
    /\ UNCHANGED ioVars

\* solver.solve, one iteration of "for step in range(...)", or the end of
\* the seed
SolveStep ==
    /\ pc = "cyc_step"
    /\ IF step >= max_steps
       THEN /\ attempt' = attempt + 1
            /\ pc' = "cyc_seed"
            /\ lastmove' = "exhausted"
            /\ F' = NoValue
            /\ col_sum' = NoValue
            /\ bt_sum' = NoValue
            /\ energy' = 0
            /\ step' = 0
            /\ outcome' = outcome
       ELSE \E rr \in Idx(n) :
            \E i1 \in Ones(F, rr) : \E i0 \in Zeros(F, rr) :
            LET delta == d_col(col_sum, i1, i0) + d_ad(bt_sum, rr, i1, i0)
            IN \E acc \in Accepts(delta) :
               /\ step' = step + 1
               /\ attempt' = attempt
               /\ IF acc
                  THEN /\ F' = Flip(F, rr, i1, i0)
                       /\ col_sum' = MoveCol(col_sum, i1, i0)
                       /\ bt_sum' = MoveAd(bt_sum, rr, i1, i0)
                       /\ energy' = energy + delta
                       /\ lastmove' = "accepted"
                       /\ IF energy + delta = 0
                          THEN outcome' = "Solved" /\ pc' = "returned"
                          ELSE outcome' = outcome /\ pc' = "cyc_step"
                  ELSE /\ lastmove' = "rejected"
                       /\ UNCHANGED <<F, col_sum, bt_sum, energy, outcome, pc>>
    /\ UNCHANGED <<n, L, engine, run, prev, verbose, printed>>
    /\ UNCHANGED btVars
    /\ UNCHANGED mainVars
    /\ UNCHANGED verVars
    /\ UNCHANGED genVars
    /\ UNCHANGED ioVars

InitSA ==
    /\ n \in Orders
    /\ engine \in {"sa", "cyc"}
    /\ L \in (IF engine = "sa" THEN named_ls ELSE {CyclicPairing})
    /\ pc = (IF engine = "sa" THEN "sa_attempt" ELSE "cyc_seed")
    /\ r = 0
    /\ stack = <<>>
    /\ col_count = NoValue
    /\ b_count = NoValue
    /\ nodes = 0
    /\ solution = <<>>
    /\ retval = FALSE
    /\ visits = <<>>
    /\ run = 1
    /\ prev = NoPrev
    /\ F = NoValue
    /\ outcome = "pending"
    /\ col_sum = NoValue
    /\ bt_sum = NoValue
    /\ energy = 0
    /\ attempt = 0
    /\ step = 0
    /\ lastmove = "none"
    /\ cands = <<>>
    /\ ci = 0
    /\ log = <<>>
    /\ verbose = TRUE
    /\ printed = <<>>
    /\ verifier = "none"
    /\ verdict = NoVerdict
    /\ flipped = NoValue
    /\ col_avail = NoValue
    /\ pair_used = NoValue
    /\ ls_r = 0
    /\ file = NoValue
    /\ rounds = <<>>
    /\ wenc = "none"
    /\ renc = "none"

NextSA == SaAttempt \/ SaStep \/ SolveSeed \/ SolveStep

\* solve_sa(L) on the named pairings and solver.solve() on the cyclic one
SpecSA == InitSA /\ [][NextSA]_vars

InitAttempts == InitBT \/ InitSA

NextAttempts ==
    \/ BtEntry
    \/ BtCall
    \/ BtLoop
    \/ BtRet
    \/ BtRepeat
    \/ SaAttempt
    \/ SaStep
    \/ SolveSeed
    \/ SolveStep

\* repeated solve_backtrack calls, solve_sa attempts and solver.solve seeds
SpecAttempts == InitAttempts /\ [][NextAttempts]_vars

-----------------------------------------------------------------------------
(* solver_bt.main and solver_fast.main *)

\* verify_and_format(F, L)[0] == []: no duplicate pair, row sums, column
\* sums, B balance, round B balance
verify_and_format_ok(FF, LL) ==
    /\ \A r1, r2 \in Idx(n) : \A i \in Idx(n) : r1 # r2 => LL[r1][i] # LL[r2][i]
    /\ \A rr \in Idx(n) : SumOver(FF[rr], Idx(n)) = m
    /\ \A i \in Idx(n) : SumOver([rr \in Idx(n) |-> FF[rr][i]], Idx(n)) = m
    /\ \A j \in Idx(n) :
         Cardinality({c \in Idx(n) \X Idx(n) :
                        LL[c[1]][c[2]] = j /\ FF[c[1]][c[2]] = 1}) = m
    /\ \A rr \in Idx(n) : Cardinality({i \in Idx(n) : FF[rr][i] = 0}) = m

\* matrices that are not Latin squares: equal rows (columns constant), equal
\* columns (rows constant), and a square with one cell overwritten
BrokenPairings ==
    {[rr \in Idx(n) |-> [i \in Idx(n) |-> i]],
     [rr \in Idx(n) |-> [i \in Idx(n) |-> rr]],
     [make_mixed_ls EXCEPT ![0] = [@ EXCEPT ![0] = make_mixed_ls[0][1]]]}

\* what main may be given to walk through: its own generators, broken
\* matrices, and (solver_fast only) the None of a failed make_random_ls
CandPool(eng) ==
    IF eng = "bt"
    THEN latin_squares \cup BrokenPairings
    ELSE {make_shift_swap_ls, NoValue} \cup BrokenPairings

\* longest candidate list explored: MaxCands, but a single candidate for the
\* local search above order 2 (each of its attempts starts from any of the
\* C(n,m)^n shuffled matrices)
ListBound(eng) == IF eng = "sa" /\ n > 2 THEN 1 ELSE MaxCands

\* the lists of 1..ListBound distinct candidates
CandLists(eng) ==
    {s \in UNION {[1 .. k -> CandPool(eng)] : k \in 1 .. ListBound(eng)} :
        \A a, b \in DOMAIN s : s[a] = s[b] => a = b}

\* a validity test that lets only the first candidate through
main_accepts_FirstOnly(eng, c) ==
    /\ ci = 1
    /\ IF eng = "bt" THEN verify_latin_square(c)
       ELSE c # NoValue /\ verify_ls(c)

\* the validity test main applies before it calls the engine
main_accepts(eng, c) ==
    IF eng = "bt" THEN verify_latin_square(c)
    ELSE c # NoValue /\ verify_ls(c)

\* top of main's for loop: fetch the next candidate and validate it, or
\* leave the loop and return None
MainNext ==
    /\ pc = "main"
    /\ IF ci > Len(cands)
       THEN /\ pc' = "exit"
            /\ outcome' = "None"
            /\ UNCHANGED <<L, ci, log, attempt>>
       ELSE LET c == cands[ci]
            IN /\ L' = c
               /\ outcome' = "pending"
               /\ IF main_accepts(engine, c)
                  THEN /\ pc' = (IF engine = "bt" THEN "entry" ELSE "sa_attempt")
                       /\ attempt' = 0
                       /\ UNCHANGED <<ci, log>>
                  ELSE /\ log' = Append(log, "invalid")
                       /\ ci' = ci + 1
                       /\ pc' = "main"
                       /\ attempt' = attempt
    /\ UNCHANGED <<n, engine, cands, run, prev, F, verbose, printed>>
    /\ UNCHANGED btVars
    /\ UNCHANGED <<col_sum, bt_sum, energy, step, lastmove>>
    /\ UNCHANGED verVars
    /\ UNCHANGED genVars
    /\ UNCHANGED ioVars

\* a driver that records the solution but goes on with the next candidate
MainAfter_KeepsGoing ==
    /\ pc = "returned"
    /\ cands # <<>>
    /\ log' = Append(log, IF outcome = "Solved" THEN "found" ELSE "nosol")
    /\ ci' = ci + 1
    /\ pc' = "main"
    /\ UNCHANGED <<n, L, engine, cands, run, prev, F, outcome, verbose, printed>>
    /\ UNCHANGED btVars
    /\ UNCHANGED saVars
    /\ UNCHANGED verVars
    /\ UNCHANGED genVars
    /\ UNCHANGED ioVars

\* the engine has returned to main: return the solution, or go on with the
\* next candidate
MainAfter ==
    /\ pc = "returned"
    /\ cands # <<>>
    /\ IF outcome = "Solved" /\ (engine = "bt" \/ verify_and_format_ok(F, L))
       THEN /\ log' = Append(log, "found")
            /\ pc' = "exit"
            /\ ci' = ci
       ELSE /\ log' = Append(log, IF outcome = "Solved" THEN "badF" ELSE "nosol")
            /\ ci' = ci + 1
            /\ pc' = "main"
    /\ UNCHANGED <<n, L, engine, cands, run, prev, F, outcome, verbose, printed>>
    /\ UNCHANGED btVars
    /\ UNCHANGED saVars
    /\ UNCHANGED verVars
    /\ UNCHANGED genVars
    /\ UNCHANGED ioVars

InitMain ==
    /\ n \in Orders
    /\ engine \in {"bt", "sa"}
    /\ cands \in CandLists(engine)
    /\ ci = 1
    /\ log = <<>>
    /\ L = NoValue
    /\ pc = "main"
    /\ r = 0
    /\ stack = <<>>
    /\ col_count = NoValue
    /\ b_count = NoValue
    /\ nodes = 0
    /\ solution = <<>>
    /\ retval = FALSE
    /\ visits = <<>>
    /\ run = 1
    /\ prev = NoPrev
    /\ F = NoValue
    /\ outcome = "pending"
    /\ col_sum = NoValue
    /\ bt_sum = NoValue
    /\ energy = 0
    /\ attempt = 0
    /\ step = 0
    /\ lastmove = "none"
    /\ verbose = TRUE
    /\ printed = <<>>
    /\ verifier = "none"
    /\ verdict = NoVerdict
    /\ flipped = NoValue
    /\ col_avail = NoValue
    /\ pair_used = NoValue
    /\ ls_r = 0
    /\ file = NoValue
    /\ rounds = <<>>
    /\ wenc = "none"
    /\ renc = "none"

NextMain ==
    \/ MainNext
    \/ MainAfter
    \/ BtEntry
    \/ BtCall
    \/ BtLoop
    \/ BtRet
    \/ SaAttempt
    \/ SaStep

\* main of solver_bt.py and of solver_fast.py over a list of candidates
SpecMain == InitMain /\ [][NextMain]_vars

-----------------------------------------------------------------------------
(* solver_bt.verify_full and solver_fast.verify_and_format *)

RECURSIVE Collect(_, _)
\* what a loop over range(k) appends to a list, f[x] being what iteration x
\* appends: f[0] \o f[1] \o ... \o f[k-1]
Collect(f, k) == IF k = 0 THEN <<>> ELSE Collect(f, k - 1) \o f[k - 1]

\* verify_full, "Latin square = each pair once": for each (i, j) the number
\* of rounds r with L[r][i] == j
PairErrors(LL) ==
    Collect([i \in Idx(n) |->
               Collect([j \in Idx(n) |->
                          LET count == Cardinality({rr \in Idx(n) : LL[rr][i] = j})
                          IN IF count # 1 THEN <<<<"Pair", i, j, count>>>>
                             ELSE <<>>], n)], n)

\* verify_and_format, "Check Latin square": a pair (i, L[r][i]) that is
\* already in the set of pairs seen
DupErrors(LL) ==
    Collect([rr \in Idx(n) |->
               Collect([i \in Idx(n) |->
                          IF \E r2 \in Idx(rr) : LL[r2][i] = LL[rr][i]
                          THEN <<<<"Dup", i, LL[rr][i]>>>>
                          ELSE <<>>], n)], n)

\* "Row sums" of either verifier
RowErrors(FF) ==
    Collect([rr \in Idx(n) |->
               LET s == SumOver(FF[rr], Idx(n))
               IN IF s # m THEN <<<<"Row", rr, s>>>> ELSE <<>>], n)

\* "Col sums" of either verifier
ColErrors(FF) ==
    Collect([i \in Idx(n) |->
               LET s == SumOver([rr \in Idx(n) |-> FF[rr][i]], Idx(n))
               IN IF s # m THEN <<<<"Col", i, s>>>> ELSE <<>>], n)

\* verify_full, "B balance": i_match stays None when no i has L[r][i] == j
NoMatch(LL, rr, j) == \A i \in Idx(n) : LL[rr][i] # j

\* verify_full, "B balance": the first i with L[r][i] == j
i_match(LL, rr, j) == Min({i \in Idx(n) : LL[rr][i] = j})

\* verify_full, "B balance": second counts the rounds with F[r][i_match] == 1
BErrorsFull(FF, LL) ==
    Collect([j \in Idx(n) |->
               LET second == Cardinality({rr \in Idx(n) :
                                            FF[rr][i_match(LL, rr, j)] = 1})
               IN IF second # m THEN <<<<"B", j, second>>>> ELSE <<>>], n)

\* verify_and_format, "B balance": second counts the cells with
\* L[r][i] == j and F[r][i] == 1
BErrorsFast(FF, LL) ==
    Collect([j \in Idx(n) |->
               LET second == Cardinality({c \in Idx(n) \X Idx(n) :
                                            LL[c[1]][c[2]] = j /\ FF[c[1]][c[2]] = 1})
               IN IF second # m THEN <<<<"B", j, second>>>> ELSE <<>>], n)

\* "Round B balance" of either verifier
RoundErrors(FF) ==
    Collect([rr \in Idx(n) |->
               LET b_first == Cardinality({i \in Idx(n) : FF[rr][i] = 0})
               IN IF b_first # m THEN <<<<"Round", rr, b_first>>>> ELSE <<>>], n)

\* verify_full(F, L): F[r][i_match] with i_match = None raises TypeError and
\* no list is returned; else the errors in the order they are appended
verify_full(FF, LL) ==
    IF \E j \in Idx(n) : \E rr \in Idx(n) : NoMatch(LL, rr, j)
    THEN [raised |-> TRUE, errors |-> <<>>]
    ELSE [raised |-> FALSE,
          errors |-> PairErrors(LL) \o RowErrors(FF) \o ColErrors(FF)
                     \o BErrorsFull(FF, LL) \o RoundErrors(FF)]

\* a verifier without the "Col sums" and "B balance" blocks
verify_and_format_NoColNoB(FF, LL) ==
    [raised |-> FALSE,
     errors |-> DupErrors(LL) \o RowErrors(FF) \o RoundErrors(FF)]

\* verify_and_format(F, L)[0]
verify_and_format(FF, LL) ==
    [raised |-> FALSE,
     errors |-> DupErrors(LL) \o RowErrors(FF) \o ColErrors(FF)
                \o BErrorsFast(FF, LL) \o RoundErrors(FF)]

\* up to this order the verifiers are run on every n x n matrix L over [0,n)
\* and every 0/1 matrix F
AllMatricesUpTo == 2

\* the pairings handed to the verifiers
VerifierPairings ==
    IF n <= AllMatricesUpTo THEN [Idx(n) -> [Idx(n) -> Idx(n)]]
    ELSE {make_shift_swap_ls, CyclicPairing} \cup BrokenPairings

\* the colourings handed to the verifiers (above AllMatricesUpTo only those
\* with m ones in every row; other row sums arise from a corrupted cell)
VerifierColourings ==
    IF n <= AllMatricesUpTo THEN [Idx(n) -> [Idx(n) -> {0, 1}]]
    ELSE [Idx(n) -> ShuffledRows]

\* solver.verify_and_print: shifts = list(range(n))
shifts == [rr \in Idx(n) |-> rr]

\* verify_and_print, "Each pair plays exactly once": a pair (i, (i + s) % n)
\* already marked in played, then the pairs never marked
PlayedErrors ==
    Collect([rr \in Idx(n) |->
               Collect([i \in Idx(n) |->
                          IF \E r2 \in Idx(rr) :
                                (i + shifts[r2]) % n = (i + shifts[rr]) % n
                          THEN <<<<"Dup", i, (i + shifts[rr]) % n>>>>
                          ELSE <<>>], n)], n)
    \o Collect([i \in Idx(n) |->
                  Collect([j \in Idx(n) |->
                             IF \A rr \in Idx(n) : (i + shifts[rr]) % n # j
                             THEN <<<<"Never", i, j>>>>
                             ELSE <<>>], n)], n)

\* verify_and_print, "B player balance": b_first counts the rounds r with
\* F[r][(j - s) % n] == 0
BFirstErrors(FF) ==
    Collect([j \in Idx(n) |->
               LET b_first == Cardinality({rr \in Idx(n) :
                                  FF[rr][(j - shifts[rr]) % n] = 0})
               IN IF b_first # m THEN <<<<"B", j, b_first>>>> ELSE <<>>], n)

\* verify_and_print(F): row_sums, col_sums and ad_sums are computed and
\* printed only; errors holds the pair and the B-balance messages, and the
\* function returns len(errors) == 0
verify_and_print(FF) ==
    [raised |-> FALSE, errors |-> PlayedErrors \o BFirstErrors(FF)]

\* errors = verify_full(F, L)
RunVerifyFull ==
    /\ pc = "verify"
    /\ verifier \in {"none", "verify_full"}
    /\ verifier' = "verify_full"
    /\ verdict' = verify_full(F, L)
    /\ pc' = "verified"
    /\ UNCHANGED <<n, L, engine, F, outcome, run, prev, verbose, printed, flipped>>
    /\ UNCHANGED btVars
    /\ UNCHANGED saVars
    /\ UNCHANGED mainVars
    /\ UNCHANGED genVars
    /\ UNCHANGED ioVars

\* errors, schedule = verify_and_format(F, L)
RunVerifyAndFormat ==
    /\ pc = "verify"
    /\ verifier \in {"none", "verify_and_format"}
    /\ verifier' = "verify_and_format"
    /\ verdict' = verify_and_format(F, L)
    /\ pc' = "verified"
    /\ UNCHANGED <<n, L, engine, F, outcome, run, prev, verbose, printed, flipped>>
    /\ UNCHANGED btVars
    /\ UNCHANGED saVars
    /\ UNCHANGED mainVars
    /\ UNCHANGED genVars
    /\ UNCHANGED ioVars

\* the caller flips one cell of an F the verifier has accepted and hands the
\* matrix to the same verifier again
CorruptCell ==
    /\ pc = "verified"
    /\ flipped = NoValue
    /\ ~verdict.raised
    /\ verdict.errors = <<>>
    /\ \E rr \in Idx(n) : \E i \in Idx(n) :
          /\ F' = [F EXCEPT ![rr] = [@ EXCEPT ![i] = 1 - @]]
          /\ flipped' = <<rr, i>>
    /\ pc' = "verify"
    /\ UNCHANGED <<n, L, engine, outcome, run, prev, verbose, printed,
                   verifier, verdict>>
    /\ UNCHANGED btVars
    /\ UNCHANGED saVars
    /\ UNCHANGED mainVars
    /\ UNCHANGED genVars
    /\ UNCHANGED ioVars

\* ok = verify_and_print(F) of solver.py (the pairing is the cyclic one the
\* function builds from shifts; it takes no L)
RunVerifyAndPrint ==
    /\ pc = "verify"
    /\ L = CyclicPairing
    /\ flipped = NoValue
    /\ verifier = "none"
    /\ verifier' = "verify_and_print"
    /\ verdict' = verify_and_print(F)
    /\ pc' = "printed"
    /\ UNCHANGED <<n, L, engine, F, outcome, run, prev, verbose, printed, flipped>>
    /\ UNCHANGED btVars
    /\ UNCHANGED saVars
    /\ UNCHANGED mainVars
    /\ UNCHANGED genVars
    /\ UNCHANGED ioVars

InitVerify ==
    /\ n \in Orders
    /\ L \in VerifierPairings
    /\ F \in VerifierColourings
    /\ engine = "verify"
    /\ pc = "verify"
    /\ r = 0
    /\ stack = <<>>
    /\ col_count = NoValue
    /\ b_count = NoValue
    /\ nodes = 0
    /\ solution = <<>>
    /\ retval = FALSE
    /\ visits = <<>>
    /\ run = 1
    /\ prev = NoPrev
    /\ outcome = "pending"
    /\ col_sum = NoValue
    /\ bt_sum = NoValue
    /\ energy = 0
    /\ attempt = 0
    /\ step = 0
    /\ lastmove = "none"
    /\ cands = <<>>
    /\ ci = 0
    /\ log = <<>>
    /\ verbose = TRUE
    /\ printed = <<>>
    /\ verifier = "none"
    /\ verdict = NoVerdict
    /\ flipped = NoValue
    /\ col_avail = NoValue
    /\ pair_used = NoValue
    /\ ls_r = 0
    /\ file = NoValue
    /\ rounds = <<>>
    /\ wenc = "none"
    /\ renc = "none"

NextVerify ==
    RunVerifyFull \/ RunVerifyAndFormat \/ RunVerifyAndPrint \/ CorruptCell

\* both verifiers on the pairings and colourings above, and again on every
\* single-cell corruption of what they accepted
SpecVerify == InitVerify /\ [][NextVerify]_vars

-----------------------------------------------------------------------------
(* solver_fast.make_random_ls and solver_bt.custom_latin_square_2 *)

\* the order the source files fix (n = 10)
SourceOrder == 10

\* candidates = [j for j in col_avail[i] if not pair_used[i][j]]
Candidates(ca, pu, i) == {j \in ca[i] : ~pu[i][j]}

\* a row check that lets every row through
NotPermutation_Skipped(perm) == FALSE

\* len(set(perm)) != n
NotPermutation(perm) == Cardinality({perm[i] : i \in Idx(n)}) # n

\* make_random_ls up to the row loop: L = [[0]*n ...], col_avail, pair_used
\* (run for the orders in Orders; rng is the source of the choices below)
MakeRandomLs ==
    /\ pc = "gen_start"
    /\ n \in Orders
    /\ L' = [rr \in Idx(n) |-> [i \in Idx(n) |-> 0]]
    /\ col_avail' = [i \in Idx(n) |-> Idx(n)]
    /\ pair_used' = [i \in Idx(n) |-> [j \in Idx(n) |-> FALSE]]
    /\ ls_r' = 0
    /\ pc' = "gen_row"
    /\ UNCHANGED <<n, engine, F, outcome, run, prev, verbose, printed>>
    /\ UNCHANGED btVars
    /\ UNCHANGED saVars
    /\ UNCHANGED mainVars
    /\ UNCHANGED verVars
    /\ UNCHANGED ioVars

\* one iteration of "for r in range(n)" of make_random_ls, or "return L".
\* candidates of position i are read from col_avail and pair_used, which
\* change only after the row is complete, so the shuffled order of the
\* positions does not change what can be drawn.
GenRow ==
    /\ pc = "gen_row"
    /\ IF ls_r = n
       THEN /\ outcome' = "Returned"
            /\ pc' = "gen_done"
            /\ UNCHANGED <<L, col_avail, pair_used, ls_r>>
       ELSE IF \E i \in Idx(n) : Candidates(col_avail, pair_used, i) = {}
       THEN /\ outcome' = "None"
            /\ L' = NoValue
            /\ pc' = "gen_done"
            /\ UNCHANGED <<col_avail, pair_used, ls_r>>
       ELSE \E perm \in [Idx(n) -> Idx(n)] :
            /\ \A i \in Idx(n) : perm[i] \in Candidates(col_avail, pair_used, i)
            /\ IF NotPermutation(perm)
               THEN /\ outcome' = "None"
                    /\ L' = NoValue
                    /\ pc' = "gen_done"
                    /\ UNCHANGED <<col_avail, pair_used, ls_r>>
               ELSE /\ L' = [L EXCEPT ![ls_r] = perm]
                    /\ col_avail' = [i \in Idx(n) |-> col_avail[i] \ {perm[i]}]
                    /\ pair_used' = [i \in Idx(n) |->
                                       [j \in Idx(n) |->
                                          pair_used[i][j] \/ j = perm[i]]]
                    /\ ls_r' = ls_r + 1
                    /\ pc' = "gen_row"
                    /\ outcome' = outcome
    /\ UNCHANGED <<n, engine, F, run, prev, verbose, printed>>
    /\ UNCHANGED btVars
    /\ UNCHANGED saVars
    /\ UNCHANGED mainVars
    /\ UNCHANGED verVars
    /\ UNCHANGED ioVars

\* custom_latin_square_2: mults
custom2_mults == <<1, 3, 1, 3, 1, 3, 1, 3, 1, 3>>

\* custom_latin_square_2: shifts
custom2_shifts == <<0, 0, 2, 2, 4, 4, 6, 6, 8, 8>>

\* custom_latin_square_2(): L[r][i] = (mults[r] * i + shifts[r]) % n
custom_latin_square_2 ==
    [rr \in Idx(n) |->
        [i \in Idx(n) |-> (custom2_mults[rr + 1] * i + custom2_shifts[rr + 1]) % n]]

\* L = custom_latin_square_2()
BuildCustom2 ==
    /\ pc = "gen_start"
    /\ L' = custom_latin_square_2
    /\ outcome' = "Returned"
    /\ pc' = "built"
    /\ UNCHANGED <<n, engine, F, run, prev, verbose, printed>>
    /\ UNCHANGED btVars
    /\ UNCHANGED saVars
    /\ UNCHANGED mainVars
    /\ UNCHANGED verVars
    /\ UNCHANGED genVars
    /\ UNCHANGED ioVars

InitGen ==
    /\ n \in Orders \cup {SourceOrder}
    /\ L = NoValue
    /\ F = NoValue
    /\ engine = "gen"
    /\ pc = "gen_start"
    /\ r = 0
    /\ stack = <<>>
    /\ col_count = NoValue
    /\ b_count = NoValue
    /\ nodes = 0
    /\ solution = <<>>
    /\ retval = FALSE
    /\ visits = <<>>
    /\ run = 1
    /\ prev = NoPrev
    /\ outcome = "pending"
    /\ col_sum = NoValue
    /\ bt_sum = NoValue
    /\ energy = 0
    /\ attempt = 0
    /\ step = 0
    /\ lastmove = "none"
    /\ cands = <<>>
    /\ ci = 0
    /\ log = <<>>
    /\ verbose = TRUE
    /\ printed = <<>>
    /\ verifier = "none"
    /\ verdict = NoVerdict
    /\ flipped = NoValue
    /\ col_avail = NoValue
    /\ pair_used = NoValue
    /\ ls_r = 0
    /\ file = NoValue
    /\ rounds = <<>>
    /\ wenc = "none"
    /\ renc = "none"

NextGen == MakeRandomLs \/ GenRow \/ BuildCustom2

\* the two generators: make_random_ls under every sequence of random choices
\* at the explored orders, custom_latin_square_2 at those and at the source's
SpecGen == InitGen /\ [][NextGen]_vars

-----------------------------------------------------------------------------
(* solver_n34_plus.write_solution and the reader of verify_n34_plus.py *)

(* Text is modelled character by character.  A character is a string: an   *)
(* ASCII character stands for itself ("A", "-", "#", a decimal numeral),   *)
(* any other one is named by its code point ("U+7B2C").  A word is a       *)
(* sequence of characters without white space, a line is its first word    *)
(* (head) and the words after it (rest).  On disk a word is a sequence of  *)
(* bytes; an ASCII character is one byte, written like the character.      *)

\* the text encodings open() may default to (locale.getpreferredencoding)
Encodings == {"utf-8", "latin-1"}

\* the decimal numerals f"{k}" produces, for k = 1, 2, ...
Numerals == <<"1", "2", "3", "4", "5", "6", "7", "8", "9", "10">>

\* f"{k}"
str(k) == Numerals[k]

\* int(s)
int(s) == CHOOSE k \in 1..Len(Numerals) : Numerals[k] = s

\* the characters outside Latin-1 that write_solution emits: the two of the
\* round label, and the first one of the Chinese header line
RoundLabelFirst == "U+7B2C"
RoundLabelLast == "U+8F6E"
HeaderFirst == "U+989D"
NonLatin1 == {RoundLabelFirst, RoundLabelLast, HeaderFirst}

\* the UTF-8 encoding of one character
Utf8Bytes(c) ==
    CASE c = "U+7B2C" -> <<"E7", "AC", "AC">>
      [] c = "U+8F6E" -> <<"E8", "BD", "AE">>
      [] c = "U+989D" -> <<"E9", "A2", "9D">>
      [] OTHER -> <<c>>

\* the Latin-1 decoding of one byte
Latin1Char(b) ==
    CASE b = "E7" -> "U+00E7"
      [] b = "AC" -> "U+00AC"
      [] b = "E8" -> "U+00E8"
      [] b = "BD" -> "U+00BD"
      [] b = "AE" -> "U+00AE"
      [] b = "E9" -> "U+00E9"
      [] b = "A2" -> "U+00A2"
      [] b = "9D" -> "U+009D"
      [] OTHER -> b

\* whether out.write(word) succeeds under the encoding (else
\* UnicodeEncodeError)
Encodable(w, enc) ==
    enc = "utf-8" \/ \A k \in 1..Len(w) : w[k] \notin NonLatin1

RECURSIVE EncodeWord(_)
\* the bytes of an encodable word (ASCII is the same in both encodings)
EncodeWord(w) ==
    IF w = <<>> THEN <<>>
    ELSE Utf8Bytes(w[1]) \o EncodeWord(SubSeq(w, 2, Len(w)))

RECURSIVE DecodeUtf8(_)
\* the characters a UTF-8 reader makes of the bytes
DecodeUtf8(bs) ==
    IF bs = <<>> THEN <<>>
    ELSE IF bs[1] \in {"E7", "E8", "E9"}
    THEN <<CHOOSE c \in NonLatin1 : Utf8Bytes(c) = SubSeq(bs, 1, 3)>>
         \o DecodeUtf8(SubSeq(bs, 4, Len(bs)))
    ELSE <<bs[1]>> \o DecodeUtf8(SubSeq(bs, 2, Len(bs)))

\* the characters a reader with the given encoding makes of the bytes
DecodeWord(bs, enc) ==
    IF enc = "utf-8" THEN DecodeUtf8(bs)
    ELSE [k \in 1..Len(bs) |-> Latin1Char(bs[k])]

\* write_solution: one match token
MatchToken(LL, FF, rr, i) ==
    IF FF[rr][i] = 1
    THEN <<"A", str(i + 1), "-", "B", str(LL[rr][i] + 1)>>
    ELSE <<"B", str(LL[rr][i] + 1), "-", "A", str(i + 1)>>

\* write_solution: the round line of row r
RoundLine(LL, FF, rr) ==
    [head |-> <<RoundLabelFirst, str(rr + 1), RoundLabelLast>>,
     rest |-> [k \in 1..n |-> MatchToken(LL, FF, rr, k - 1)]]

CommentLine == [head |-> <<"#">>, rest |-> <<>>]
ChineseCommentLine == [head |-> <<"#">>, rest |-> <<<<HeaderFirst>>>>]
BlankLine == [head |-> <<>>, rest |-> <<>>]

\* the lines write_solution writes, in order: five header lines (the third
\* one in Chinese), a blank line, the n round lines, a blank line and the
\* "# Verification" trailer (every trailer line starts with "#"; how many
\* there are depends on verify(L, F), one line stands for them)
ScheduleText(LL, FF) ==
    <<CommentLine, CommentLine, ChineseCommentLine, CommentLine, CommentLine,
      BlankLine>>
    \o [k \in 1..n |-> RoundLine(LL, FF, k - 1)]
    \o <<BlankLine, CommentLine>>

LineEncodable(ln, enc) ==
    /\ Encodable(ln.head, enc)
    /\ \A k \in 1..Len(ln.rest) : Encodable(ln.rest[k], enc)

EncodeLine(ln) ==
    [head |-> EncodeWord(ln.head),
     rest |-> [k \in 1..Len(ln.rest) |-> EncodeWord(ln.rest[k])]]

DecodeLine(ln, enc) ==
    [head |-> DecodeWord(ln.head, enc),
     rest |-> [k \in 1..Len(ln.rest) |-> DecodeWord(ln.rest[k], enc)]]

\* the argument of line.startswith(...) in verify_n34_plus.py, line 21:
\* the three characters U+00E7 U+00AC U+00AC
RoundPrefix == <<"U+00E7", "U+00AC", "U+00AC">>

\* word.startswith(prefix)
StartsWith(w, prefix) ==
    Len(w) >= Len(prefix) /\ SubSeq(w, 1, Len(prefix)) = prefix

\* parse_match(s)
parse_match(s) ==
    LET dash == CHOOSE k \in 1..Len(s) : s[k] = "-"
        left == SubSeq(s, 1, dash - 1)
        right == SubSeq(s, dash + 1, Len(s))
    IN IF left[1] = "A"
       THEN <<int(left[2]) - 1, int(right[2]) - 1, TRUE>>
       ELSE <<int(right[2]) - 1, int(left[2]) - 1, FALSE>>

RECURSIVE ReadRounds(_, _)
\* the reader loop of verify_n34_plus.py over the lines of the file: blank
\* lines and "#" lines are skipped, a line that starts with RoundPrefix
\* appends its parsed matches to rounds, any other line is passed over
ReadRounds(lines, enc) ==
    IF lines = <<>> THEN <<>>
    ELSE LET line == DecodeLine(lines[Len(lines)], enc)
             before == ReadRounds(SubSeq(lines, 1, Len(lines) - 1), enc)
         IN IF line = BlankLine \/ StartsWith(line.head, <<"#">>)
            THEN before
            ELSE IF StartsWith(line.head, RoundPrefix)
            THEN Append(before,
                        [k \in 1..Len(line.rest) |-> parse_match(line.rest[k])])
            ELSE before

\* the lines that reach the file before the first out.write that raises
WrittenPrefix(text, enc) ==
    LET bad == {k \in 1..Len(text) : ~LineEncodable(text[k], enc)}
    IN IF bad = {} THEN text ELSE SubSeq(text, 1, Min(bad) - 1)

\* write_solution(L, F, solve_time) in a process whose default text encoding
\* is enc: the file is complete, or UnicodeEncodeError leaves the lines
\* written so far
WriteSolution ==
    /\ pc = "write"
    /\ \E enc \in Encodings :
          LET text == ScheduleText(L, F)
              done == WrittenPrefix(text, enc)
          IN /\ wenc' = enc
             /\ file' = [k \in 1..Len(done) |-> EncodeLine(done[k])]
             /\ pc' = IF done = text THEN "written" ELSE "write_raised"
    /\ UNCHANGED <<n, L, engine, F, outcome, run, prev, verbose, printed,
                   rounds, renc>>
    /\ UNCHANGED btVars
    /\ UNCHANGED saVars
    /\ UNCHANGED mainVars
    /\ UNCHANGED verVars
    /\ UNCHANGED genVars

\* verify_n34_plus.py up to "assert len(rounds) == n", run on the file in a
\* process whose default text encoding is enc
ReadSchedule ==
    /\ pc \in {"written", "write_raised"}
    /\ \E enc \in Encodings :
          /\ renc' = enc
          /\ rounds' = ReadRounds(file, enc)
          /\ pc' = IF Len(rounds') = n THEN "read_ok" ELSE "assert_failed"
    /\ UNCHANGED <<n, L, engine, F, outcome, run, prev, verbose, printed,
                   file, wenc>>
    /\ UNCHANGED btVars
    /\ UNCHANGED saVars
    /\ UNCHANGED mainVars
    /\ UNCHANGED verVars
    /\ UNCHANGED genVars

InitFile ==
    /\ n \in Orders
    /\ L = make_shift_swap_ls
    /\ F \in VerifierColourings
    /\ engine = "file"
    /\ pc = "write"
    /\ r = 0
    /\ stack = <<>>
    /\ col_count = NoValue
    /\ b_count = NoValue
    /\ nodes = 0
    /\ solution = <<>>
    /\ retval = FALSE
    /\ visits = <<>>
    /\ run = 1
    /\ prev = NoPrev
    /\ outcome = "pending"
    /\ col_sum = NoValue
    /\ bt_sum = NoValue
    /\ energy = 0
    /\ attempt = 0
    /\ step = 0
    /\ lastmove = "none"
    /\ cands = <<>>
    /\ ci = 0
    /\ log = <<>>
    /\ verbose = TRUE
    /\ printed = <<>>
    /\ verifier = "none"
    /\ verdict = NoVerdict
    /\ flipped = NoValue
    /\ col_avail = NoValue
    /\ pair_used = NoValue
    /\ ls_r = 0
    /\ file = NoValue
    /\ rounds = <<>>
    /\ wenc = "none"
    /\ renc = "none"

NextFile == WriteSolution \/ ReadSchedule

\* a schedule written by write_solution and read back by verify_n34_plus,
\* each under either default encoding
SpecFile == InitFile /\ [][NextFile]_vars

-----------------------------------------------------------------------------
(* Independent re-derivation of the balance families from (L, F) *)

\* sum(F[r])
RowSum(FF, rr) == SumOver(FF[rr], Idx(n))

\* sum(F[r][i] for r in range(n))
ColSum(FF, i) == SumOver([rr \in Idx(n) |-> FF[rr][i]], Idx(n))

\* number of cells (r, i) with L[r][i] = j and F[r][i] = 1
OppSum(FF, LL, j) ==
    Cardinality({c \in Idx(n) \X Idx(n) : LL[c[1]][c[2]] = j /\ FF[c[1]][c[2]] = 1})

IsMatrix01(FF) ==
    /\ DOMAIN FF = Idx(n)
    /\ \A rr \in Idx(n) : DOMAIN FF[rr] = Idx(n)
    /\ \A rr \in Idx(n) : \A i \in Idx(n) : FF[rr][i] \in {0, 1}

Balanced(FF, LL) ==
    /\ IsMatrix01(FF)
    /\ \A rr \in Idx(n) : RowSum(FF, rr) = m
    /\ \A i \in Idx(n) : ColSum(FF, i) = m
    /\ \A j \in Idx(n) : OppSum(FF, LL, j) = m

\* all 0/1 rows of length n with sum m
RowsM == {row \in [Idx(n) -> {0, 1}] : SumOver(row, Idx(n)) = m}

\* brute force: the balanced colourings among all row-sum-m matrices
BruteForce(LL) ==
    {FF \in [Idx(n) -> RowsM] :
        /\ \A i \in Idx(n) : ColSum(FF, i) = m
        /\ \A j \in Idx(n) : OppSum(FF, LL, j) = m}

BruteForceExists(LL) ==
    \E FF \in [Idx(n) -> RowsM] :
        /\ \A i \in Idx(n) : ColSum(FF, i) = m
        /\ \A j \in Idx(n) : OppSum(FF, LL, j) = m

BtReturned == engine = "bt" /\ pc = "returned"

-----------------------------------------------------------------------------
(* Claims on solve_backtrack, checked under SpecBT *)

\* C1: any F returned by solve_backtrack(L) is complete and balanced: n rows
\* were decided, every row, column and opponent sum is m; when no solution is
\* reported no F is returned at all.
C1_ReturnedFBalanced ==
    BtReturned =>
        /\ outcome \in {"Solved", "None"}
        /\ outcome = "Solved" => (Len(solution) = n /\ Balanced(F, L))
        /\ outcome = "None" => F = NoValue

C1_Witness ==
    BtReturned /\ outcome = "Solved" /\ n = 4 /\ nodes > n + 1

\* C2: for n = 4 the Solved/None verdict of solve_backtrack agrees with brute
\* force over all row-sum-m matrices.
C2_AgreesWithBruteForce ==
    (BtReturned /\ n = 4) =>
        /\ outcome = "Solved" <=> BruteForceExists(L)
        /\ outcome = "None" <=> ~BruteForceExists(L)

C2_Witness ==
    BtReturned /\ n = 4 /\ outcome = "Solved" /\ BruteForceExists(L) /\ nodes > n + 1

\* C4 as stated: for n = 2 the engine ends Solved and exactly one colouring
\* is valid.
C4_Original ==
    (BtReturned /\ n = 2) =>
        /\ outcome = "Solved"
        /\ Cardinality(BruteForce(L)) = 1

\* C4 amended: for n = 2, m = 1 the engine resolves after 3 nodes with None
\* (Unsat), and no colouring at all is valid.
C4_OrderTwoUnsat ==
    (BtReturned /\ n = 2) =>
        /\ outcome = "None"
        /\ nodes = 3
        /\ BruteForce(L) = {}

C4_Witness ==
    BtReturned /\ n = 2 /\ outcome = "None" /\ Len(visits) = 2

\* C5: a second run of solve_backtrack on the same L visits the same
\* (row, completion) sequence, ends with the same node count and returns the
\* same outcome and F.
C5_Deterministic ==
    (BtReturned /\ run = 2) =>
        /\ visits = prev.visits
        /\ nodes = prev.nodes
        /\ outcome = prev.outcome
        /\ F = prev.F

C5_Witness ==
    BtReturned /\ run = 2 /\ n = 4 /\ prev.nodes > n + 1 /\ prev.outcome = "Solved"

\* C6 as stated: once the node count exceeds the cutoff the search has stopped
\* and reports Timeout.
C6_CutoffReportsTimeout ==
    (engine = "bt" /\ nodes > NodeCutoff) => (pc = "returned" /\ outcome = "Timeout")

\* C8: for a valid Latin square every transversal row T[j] is a permutation
\* of [0,n), in solve_backtrack's b_trans and in compute_b_transversals.
C8_TransversalsArePermutations ==
    verify_latin_square(L) =>
        \A j \in Idx(n) :
            /\ IsPerm(TransRow(L, j), n)
            /\ IsPerm(compute_b_transversals(L)[j], n)

C8_Witness ==
    /\ verify_latin_square(L)
    /\ n = 4
    /\ pc = "loop"
    /\ \E j \in Idx(n) : TransRow(L, j) # Column(L, j)

-----------------------------------------------------------------------------
(* Claims on the local search, checked under SpecSA *)

InLocalSearch == engine \in {"sa", "cyc"} /\ F # NoValue

\* C9: in solve_sa and solver.solve, after initialisation and after every
\* accepted move, in any sequence of moves, every row of F sums to m.
C9_RowSumsStayM ==
    InLocalSearch => \A rr \in Idx(n) : RowSum(F, rr) = m

C9_Witness ==
    InLocalSearch /\ n = 4 /\ lastmove = "accepted" /\ step >= 2

\* C10: after every move, accepted or rejected, the tracked energy equals the
\* energy recomputed from F and L, and the tracked column and opponent sums
\* equal the sums recomputed from F and L.
C10_TrackedEqualsRecomputed ==
    InLocalSearch =>
        /\ \A i \in Idx(n) : col_sum[i] = ColSum(F, i)
        /\ \A j \in Idx(n) : bt_sum[j] = OppSum(F, L, j)
        /\ energy = SumOver([i \in Idx(n) |-> Sq(ColSum(F, i) - m)], Idx(n))
                    + SumOver([j \in Idx(n) |-> Sq(OppSum(F, L, j) - m)], Idx(n))

C10_Witness ==
    /\ InLocalSearch
    /\ n = 4
    /\ step >= 2
    /\ lastmove \in {"accepted", "rejected"}
    /\ energy > 0
    /\ \E j \in Idx(n) : bt_sum[j] # m

-----------------------------------------------------------------------------
(* Claims on main, checked under SpecMain *)

\* some row or some column of LL is not a permutation of [0,n) (or there is
\* no matrix at all)
NotAPairing(LL) ==
    \/ LL = NoValue
    \/ \E rr \in Idx(n) : {LL[rr][i] : i \in Idx(n)} # Idx(n)
    \/ \E i \in Idx(n) : {LL[rr][i] : rr \in Idx(n)} # Idx(n)

\* C7: a candidate L with a row or column that is not a permutation (or no
\* matrix at all) is rejected before any search starts: the step that fetches
\* it records "invalid" and moves on, and as long as it is the current L no
\* counter, no F, no node count and no search position is created or changed.
C7_InvalidPairingRejected ==
    [][(cands # <<>> /\ NotAPairing(L')) =>
          /\ pc' \in {"main", "exit"}
          /\ (L' # L => (log' = Append(log, "invalid") /\ ci' = ci + 1))
          /\ UNCHANGED <<col_count, b_count, nodes, solution, stack, visits, F,
                         col_sum, bt_sum, energy, step>>]_vars

C7_Witness ==
    /\ Len(log) = 2
    /\ log[1] = "invalid"
    /\ NotAPairing(cands[1])
    /\ cands[1] # NoValue
    /\ log[2] = "found"
    /\ pc = "exit"

\* C11: any F returned by solve_sa(L) for a valid Latin square L is feasible
\* (every row, column and opponent sum, re-derived from (L, F), is m), and the
\* attempt stops at the first state whose energy is 0: no feasible F, the
\* initial one included, is ever held by an attempt that is still running.
C11_ReturnedFFeasible ==
    (engine = "sa" /\ verify_latin_square(L)) =>
        /\ (pc = "returned" /\ outcome = "Solved") => Balanced(F, L)
        /\ (F # NoValue /\ Balanced(F, L)) => (pc = "returned" /\ outcome = "Solved")

C11_Witness ==
    /\ engine = "sa"
    /\ n = 4
    /\ pc = "returned"
    /\ outcome = "Solved"
    /\ lastmove = "accepted"
    /\ step = 2

-----------------------------------------------------------------------------
(* Claims on the restart driver, checked under SpecMain *)

\* C12: main declares overall failure (returns None) only after every
\* candidate has been dealt with: each one was either rejected as not being a
\* pairing or run to its end without success.  A backtracking run is recorded
\* as failed only when its root call has returned False, a local search only
\* when all max_attempts attempts are used up, and an attempt is given up only
\* when its max_steps steps are used up.
C12_FailureOnlyAfterAllTried ==
    [][/\ (pc' = "exit" /\ outcome' = "None") =>
              /\ Len(log') = Len(cands)
              /\ \A k \in 1 .. Len(cands) :
                     /\ log'[k] \in {"invalid", "nosol"}
                     /\ log'[k] = "invalid" => NotAPairing(cands[k])
       /\ (log' = Append(log, "nosol")) =>
              /\ pc = "returned"
              /\ outcome = "None"
              /\ engine = "bt" => (stack = <<>> /\ ~retval)
              /\ engine = "sa" => attempt = max_attempts
       /\ (attempt' = attempt + 1) => step = max_steps]_vars

C12_Witness ==
    /\ pc = "exit"
    /\ outcome = "None"
    /\ engine = "sa"
    /\ n = 4
    /\ log = <<"nosol">>
    /\ attempt = max_attempts

\* an attempt has succeeded: a backtrack call has returned True (and the
\* value is on its way up the call chain or has reached main), or the search
\* has returned an F
Succeeded ==
    \/ engine = "bt" /\ retval /\ pc \in {"ret", "returned", "exit"}
    \/ outcome = "Solved"

\* C13: once an attempt has succeeded, no further move or branch is executed,
\* by this or by any other attempt (other seed, other candidate L): from then
\* on no node is counted, no completion is applied, no counter, sum or energy
\* changes, no step or attempt is started and no other candidate is fetched.
C13_NothingRunsAfterSuccess ==
    [][Succeeded =>
          /\ Succeeded'
          /\ UNCHANGED <<L, ci, nodes, visits, col_count, b_count, solution,
                         col_sum, bt_sum, energy, step, attempt, lastmove>>
          /\ (F' # F => (engine = "bt" /\ F = NoValue /\ F' = BuildF(solution)))]_vars

C13_Witness ==
    /\ pc = "exit"
    /\ n = 4
    /\ log = <<"found">>
    /\ Len(cands) = 2
    /\ ~NotAPairing(cands[2])
    /\ nodes > n + 1

-----------------------------------------------------------------------------
(* Claims on repeated attempts, checked under SpecAttempts *)

RECURSIVE BtFresh(_, _, _, _), LoopFresh(_, _, _, _, _, _, _, _, _)
\* backtrack(rr) evaluated as a function of the counters it is handed, with no
\* state kept between calls: whether it returns True and how many nodes it
\* enters
BtFresh(cc, bc, rr, T) ==
    IF rr = n THEN [ok |-> AllAtTarget(cc, bc), nodes |-> 1]
    ELSE IF RowInfeasible(cc, bc, T, rr) THEN [ok |-> FALSE, nodes |-> 1]
    ELSE LET forced == Forced(cc, bc, T, rr)
             free == FreeCols(forced, Forbidden(cc, bc, T, rr))
             res == LoopFresh(cc, bc, rr, T, forced, free,
                              m - Cardinality(forced), FALSE, {})
         IN [ok |-> res.ok, nodes |-> res.nodes + 1]

\* the for loop of that call, from the combination after extra on
LoopFresh(cc, bc, rr, T, forced, free, need, started, extra) ==
    LET nxt == NextComb(free, need, started, extra)
    IN IF nxt = {} THEN [ok |-> FALSE, nodes |-> 0]
       ELSE LET ex == CHOOSE x \in nxt : TRUE
                cc2 == ApplyCol(cc, forced \cup ex)
                bc2 == ApplyB(bc, T, rr, forced \cup ex)
                sub == IF Feasible(cc2, bc2, Remain(rr))
                       THEN BtFresh(cc2, bc2, rr + 1, T)
                       ELSE [ok |-> FALSE, nodes |-> 0]
                rest == LoopFresh(cc, bc, rr, T, forced, free, need, TRUE, ex)
            IN IF sub.ok THEN sub
               ELSE [ok |-> rest.ok, nodes |-> sub.nodes + rest.nodes]

-----------------------------------------------------------------------------
(* Claims on the verifiers, checked under SpecVerify *)

\* C15: when a pair (L, F) has been accepted by a verifier and the single
\* bit F[r][i] is flipped, the same verifier rejects the matrix (it returns a
\* non-empty error list), and the list includes the imbalance of column i or
\* of opponent L[r][i].
C15_SingleFlipRejected ==
    (pc = "verified" /\ flipped # NoValue) =>
        /\ ~verdict.raised
        /\ verdict.errors # <<>>
        /\ \E k \in 1 .. Len(verdict.errors) :
              LET err == verdict.errors[k]
              IN \/ err[1] = "Col" /\ err[2] = flipped[2]
                 \/ err[1] = "B" /\ err[2] = L[flipped[1]][flipped[2]]

C15_Witness ==
    /\ pc = "verified"
    /\ flipped # NoValue
    /\ n = 4
    /\ ~NotAPairing(L)
    /\ verifier = "verify_full"
    /\ F[flipped[1]][flipped[2]] = 0

\* C16 as stated: for every L over [0,n) and every 0/1 matrix F each verifier
\* terminates with an error list, and the list is empty exactly when L is a
\* valid pairing (every row and every column of L is a permutation) and every
\* row, column and opponent sum of F is m.
C16_EmptyExactlyWhenValid ==
    (pc = "verified") =>
        /\ ~verdict.raised
        /\ (verdict.errors = <<>>) <=> (~NotAPairing(L) /\ Balanced(F, L))

-----------------------------------------------------------------------------
(* Further claims on solve_backtrack, checked under SpecBT *)

\* C17: progress reporting does not influence the search.  Two calls of
\* solve_backtrack on the same L, one with verbose=True and one with
\* verbose=False, apply the same (row, completion) sequence, leave the same
\* col_count and b_count, reach the same node count and return the same
\* outcome and F.
C17_VerboseDoesNotInfluence ==
    (BtReturned /\ run = 2 /\ verbose # prev.verbose) =>
        /\ visits = prev.visits
        /\ col_count = prev.col_count
        /\ b_count = prev.b_count
        /\ nodes = prev.nodes
        /\ outcome = prev.outcome
        /\ F = prev.F

C17_Witness ==
    /\ BtReturned
    /\ run = 2
    /\ n = 4
    /\ verbose
    /\ ~prev.verbose
    /\ Len(printed) > 3
    /\ printed[1][1] = "Nodes"
    /\ nodes > n + 1

\* C18: apply and undo of a row completion are exact inverses.  Whenever a
\* call backtrack(r, solution) returns False (at once, or after its for loop
\* has run out), col_count, b_count and the solution list equal what they
\* were when that call was entered; and the same holds each time the call is
\* back at the head of its loop, after any sequence of completions tried.
C18_ReturnFalseRestoresState ==
    [][/\ (pc \in {"call", "loop"} /\ pc' = "ret" /\ ~retval') =>
              LET entered == IF pc = "call"
                             THEN [cc |-> col_count, bc |-> b_count, sol |-> solution]
                             ELSE [cc |-> stack[Len(stack)].cc0,
                                   bc |-> stack[Len(stack)].bc0,
                                   sol |-> stack[Len(stack)].sol0]
              IN /\ col_count' = entered.cc
                 /\ b_count' = entered.bc
                 /\ solution' = entered.sol
       /\ (pc' = "loop") =>
              /\ col_count' = stack'[Len(stack')].cc0
              /\ b_count' = stack'[Len(stack')].bc0
              /\ solution' = stack'[Len(stack')].sol0]_vars

C18_Witness ==
    /\ engine = "bt"
    /\ n = 4
    /\ pc = "ret"
    /\ ~retval
    /\ stack # <<>>
    /\ r > Len(stack)
    /\ Len(visits) > Len(stack) + 1

\* columns that row rr has to take, read off L: the column, or the opponent
\* sitting in it, cannot reach m in the rows after rr
MustTake(cc, bc, rr) ==
    {i \in Idx(n) : \/ cc[i] < m /\ cc[i] + Remain(rr) < m
                    \/ bc[L[rr][i]] < m /\ bc[L[rr][i]] + Remain(rr) < m}

\* columns that row rr must not take, read off L: the column, or the opponent
\* sitting in it, is at m already
MustSkip(cc, bc, rr) ==
    {i \in Idx(n) : cc[i] >= m \/ bc[L[rr][i]] >= m}

\* the three pruning conditions
MustAbandon(cc, bc, rr) ==
    \/ MustTake(cc, bc, rr) \cap MustSkip(cc, bc, rr) # {}
    \/ Cardinality(MustTake(cc, bc, rr)) > m
    \/ n - Cardinality(MustSkip(cc, bc, rr)) < m

\* C19: at every row r each completion that is tried contains every forced
\* column, contains no forbidden column and has exactly m columns; and a call
\* entered at row r < n with a column both forced and forbidden, with more
\* than m forced columns or with fewer than m non-forbidden columns returns
\* False without trying any completion.
C19_CompletionsRespectForcedForbidden ==
    [][/\ \A k \in 1 .. Len(stack') :
              LET fr == stack'[k]
              IN fr.started =>
                    /\ MustTake(fr.cc0, fr.bc0, fr.r) \subseteq fr.chosen
                    /\ fr.chosen \cap MustSkip(fr.cc0, fr.bc0, fr.r) = {}
                    /\ Cardinality(fr.chosen) = m
       /\ (pc = "call" /\ r < n /\ MustAbandon(col_count, b_count, r)) =>
              /\ pc' = "ret"
              /\ ~retval'
              /\ UNCHANGED <<stack, visits, col_count, b_count, solution>>]_vars

C19_Witness ==
    /\ engine = "bt"
    /\ n = 4
    /\ pc = "ret"
    /\ ~retval
    /\ r < n
    /\ r = Len(stack)
    /\ visits # <<>>
    /\ visits[Len(visits)][1] = r - 1
    /\ MustAbandon(col_count, b_count, r)

-----------------------------------------------------------------------------
(* Further claims on the local search, checked under SpecSA *)

\* the change of the quadratic term of a counter at value c moved by d
TermChange(c, d) == Sq(c + d - m) - Sq(c - m)

-----------------------------------------------------------------------------
\* C21: a solve_sa attempt that runs through all max_steps moves with
\* energy > 0 ends without an error and without a result: the loop falls
\* through to the next attempt index, the attempt's F is not kept, the next
\* attempt (seeded with the next index) builds a fresh F with m ones in every
\* row and starts at step 0, and solve_sa returns None only when the attempt
\* index has reached max_attempts, each attempt before it having run out.
C21_ExhaustedAttemptIsNonFatal ==
    [][engine = "sa" =>
        /\ (pc = "sa_step" /\ step >= max_steps) =>
              /\ energy > 0
              /\ pc' = "sa_attempt"
              /\ attempt' = attempt + 1
              /\ outcome' = "pending"
              /\ F' # F
        /\ (pc = "sa_attempt" /\ lastmove = "exhausted"
                /\ attempt < max_attempts) =>
              /\ F' \in [Idx(n) -> RowsM]
              /\ step' = 0
              /\ attempt' = attempt
              /\ lastmove' = "init"
              /\ pc' \in {"sa_step", "returned"}
              /\ outcome' # "None"
        /\ (outcome' = "None" /\ outcome # "None") =>
              /\ attempt = max_attempts
              /\ lastmove = "exhausted"
              /\ pc' = "returned"
    ]_vars

\* solve_sa has returned None after its last attempt ran out of steps
C21_Witness ==
    /\ engine = "sa"
    /\ n = 4
    /\ pc = "returned"
    /\ outcome = "None"
    /\ attempt = max_attempts
    /\ lastmove = "exhausted"


-----------------------------------------------------------------------------
\* C22: verify_and_print(F) returns True (an empty errors list) only when F
\* has every row sum, every column sum and every B-player count equal to m
\* for the cyclic pairing.
C22_TrueOnlyWhenBalanced ==
    (verifier = "verify_and_print" /\ pc = "printed" /\ verdict.errors = <<>>)
        => Balanced(F, CyclicPairing)


-----------------------------------------------------------------------------
\* C26: solve_backtrack terminates on every valid Latin square with a
\* returned F or None.  The row of every backtrack call is within 0..n, the
\* frames inside their loop are those of rows 0, 1, 2, ... in this order (so
\* at most n of them plus the call being entered), each loop iteration takes
\* a combination of the frame's free set that is strictly later in the
\* iterator's order than the one before, and every call that is started
\* reaches its return.
C26_BacktrackTerminates ==
    /\ [](engine = "bt" =>
            /\ r \in 0..n
            /\ Len(stack) <= n
            /\ \A k \in 1..Len(stack) : stack[k].r = k - 1
            /\ (pc = "call" => r = Len(stack)))
    /\ [][(engine = "bt" /\ pc = "loop" /\ visits' # visits) =>
            LET old == stack[Len(stack)]
                new == stack'[Len(stack)]
            IN /\ Len(stack') = Len(stack)
               /\ new.extra \subseteq old.free
               /\ Cardinality(new.extra) = old.need
               /\ old.started => LexLess(old.extra, new.extra)]_vars
    /\ (engine = "bt" /\ pc = "entry")
          ~> (pc = "returned" /\ outcome \in {"Solved", "None"})

\* the second call has returned after a search that went to depth n and
\* also backed out of a row
C26_Witness ==
    /\ BtReturned
    /\ run = 2
    /\ n = 4
    /\ Len(visits) > n
    /\ \E k \in 1..Len(visits) : visits[k][1] = n - 1

\* C27: in solve_backtrack on a valid Latin square the feasibility check
\* after "Apply" never fails: every completion taken from the iterator leaves
\* every col_count and every b_count within [m - remain, m], and the
\* recursive call for the next row is entered.
C27_FeasibilityCheckNeverFails ==
    [][(engine = "bt" /\ pc = "loop" /\ visits' # visits) =>
          LET rem == Remain(stack[Len(stack)].r)
          IN /\ pc' = "call"
             /\ r' = stack[Len(stack)].r + 1
             /\ \A i \in Idx(n) : col_count'[i] >= m - rem /\ col_count'[i] <= m
             /\ \A j \in Idx(n) : b_count'[j] >= m - rem /\ b_count'[j] <= m
    ]_vars

\* a call entered from a frame that had forced columns and free ones to add
C27_Witness ==
    /\ engine = "bt"
    /\ n = 4
    /\ pc = "call"
    /\ stack # <<>>
    /\ stack[Len(stack)].forced # {}
    /\ stack[Len(stack)].need > 0
    /\ stack[Len(stack)].forbidden # {}

\* C28: on every entry to backtrack(r, solution): len(solution) = r,
\* sum(col_count) = sum(b_count) = r*m, every counter lies in
\* [max(0, m-(n-r)), min(m, r)], and the early "return False" of the column
\* loop (count + remain + 1 < m) does not apply.
C28_EntryInvariant ==
    (engine = "bt" /\ pc = "call") =>
        /\ Len(solution) = r
        /\ SumOver(col_count, Idx(n)) = r * m
        /\ SumOver(b_count, Idx(n)) = r * m
        /\ \A i \in Idx(n) :
              /\ col_count[i] >= Max({0, m - (n - r)})
              /\ col_count[i] <= Min({m, r})
              /\ b_count[i] >= Max({0, m - (n - r)})
              /\ b_count[i] <= Min({m, r})
        /\ (r < n => ~ColPrune(col_count, Remain(r)))

\* the call for the last row is entered after the search has backed out of
\* some row
C28_Witness ==
    /\ engine = "bt"
    /\ n = 4
    /\ pc = "call"
    /\ r = n - 1
    /\ Len(visits) > r

\* C29: whenever backtrack is entered with r == n every column counter and
\* every opponent counter equals m, and the call returns True.
C29_DepthNImpliesSuccess ==
    [][(engine = "bt" /\ pc = "call" /\ r = n) =>
          /\ \A i \in Idx(n) : col_count[i] = m /\ b_count[i] = m
          /\ retval'
          /\ pc' = "ret"
    ]_vars

\* the call with r == n has just returned True
C29_Witness ==
    /\ engine = "bt"
    /\ n = 4
    /\ pc = "ret"
    /\ retval
    /\ r = n
    /\ Len(stack) = n


\* C30: in the local search (solve_sa and solver.solve), after initialisation
\* and after any sequence of moves, the tracked column sums and the tracked
\* opponent sums each add up to n*m, every tracked sum lies in [0, n], and
\* every row of F holds at least one 1 and at least one 0, so that a move
\* (i1 among the ones, i0 among the zeros of a row) can be proposed.
C30_SumsConservedMoveAvailable ==
    InLocalSearch =>
        /\ SumOver(col_sum, Idx(n)) = n * m
        /\ SumOver(bt_sum, Idx(n)) = n * m
        /\ \A i \in Idx(n) : col_sum[i] \in 0..n /\ bt_sum[i] \in 0..n
        /\ \A rr \in Idx(n) : Ones(F, rr) # {} /\ Zeros(F, rr) # {}

\* after two moves, the second accepted, a column sum sits at the top of its
\* range and an opponent sum is off target
C30_Witness ==
    /\ InLocalSearch
    /\ n = 4
    /\ step = 2
    /\ lastmove = "accepted"
    /\ \E i \in Idx(n) : col_sum[i] = n
    /\ \E j \in Idx(n) : bt_sum[j] # m


-----------------------------------------------------------------------------
\* C23: whatever the random choices, make_random_ls returns None or a matrix
\* whose rows and columns are all permutations of [0,n); verify_ls accepts
\* every matrix it returns.
C23_RandomLsNoneOrLatin ==
    (engine = "gen" /\ pc = "gen_done") =>
        \/ outcome = "None" /\ L = NoValue
        \/ /\ outcome = "Returned"
           /\ verify_ls(L)
           /\ ~NotAPairing(L)

\* make_random_ls has returned a square of order 4 that is none of the named
\* ones
C23_Witness ==
    /\ engine = "gen"
    /\ pc = "gen_done"
    /\ outcome = "Returned"
    /\ n = 4
    /\ ls_r = n
    /\ L \notin named_ls \cup {CyclicPairing}

\* C24 as stated: custom_latin_square_2 returns a matrix whose rows and
\* columns are all permutations of [0,n), so verify_latin_square accepts it.
C24_Custom2IsLatin ==
    (engine = "gen" /\ pc = "built") =>
        /\ verify_latin_square(L)
        /\ ~NotAPairing(L)


-----------------------------------------------------------------------------
\* what the reader should have in rounds: per round r the matches
\* (i, L[r][i], F[r][i] == 1) in the order of i
ExpectedRounds ==
    [k \in 1..n |-> [i \in 1..n |-> <<i - 1, L[k - 1][i - 1], F[k - 1][i - 1] = 1>>]]

\* C25 as stated: from a schedule file that write_solution has written,
\* verify_n34_plus reads back exactly n rounds of n matches, every round line
\* being recognised and parsed to (i, L[r][i], F[r][i] == 1).
C25_ReadsBackEveryRound ==
    (engine = "file" /\ pc \in {"read_ok", "assert_failed"}
         /\ Len(file) = Len(ScheduleText(L, F))) =>
        /\ pc = "read_ok"
        /\ rounds = ExpectedRounds

=============================================================================
